---- MODULE Spec2Model ----
(***************************************************************************)
(* Questify: a TF-IDF / cosine-similarity text search engine.              *)
(*                                                                         *)
(* The model follows the Python sources: TextPreprocessor, QueryProcessor, *)
(* TFIDFIndexer, CosineSimilarityCalculator, ResultRanker, DocumentStore   *)
(* and QuestifySearchEngine.  Texts are sequences of one-character         *)
(* strings; tokens are strings.  Floating-point scores are fixed-point     *)
(* integers (see ScoreScale and SimScale).                                 *)
(***************************************************************************)
EXTENDS Integers, Sequences, FiniteSets, TLC

(***************************************************************************)
(* Characters.                                                             *)
(***************************************************************************)
LowerLetters ==
    <<"a","b","c","d","e","f","g","h","i","j","k","l","m",
      "n","o","p","q","r","s","t","u","v","w","x","y","z">>

UpperLetters ==
    <<"A","B","C","D","E","F","G","H","I","J","K","L","M",
      "N","O","P","Q","R","S","T","U","V","W","X","Y","Z">>

Digits == {"0","1","2","3","4","5","6","7","8","9"}

Range(s) == {s[i] : i \in 1..Len(s)}

LowerSet == Range(LowerLetters)

UpperSet == Range(UpperLetters)

\* Characters str.strip() and str.split() treat as whitespace.
Whitespace == {" ", "\t", "\n", "\r"}

\* str.lower() on one character.
LowerChar(c) ==
    IF c \in UpperSet
    THEN LowerLetters[CHOOSE i \in 1..Len(UpperLetters) : UpperLetters[i] = c]
    ELSE c

\* str.lower().
Lower(text) == [i \in 1..Len(text) |-> LowerChar(text[i])]

(***************************************************************************)
(* TextPreprocessor (utils/text_preprocessor.py).                          *)
(***************************************************************************)
STOPWORDS ==
    {"a", "an", "and", "are", "as", "at", "be", "by", "for", "from",
     "has", "he", "in", "is", "it", "its", "of", "on", "that", "the",
     "to", "was", "will", "with", "the", "this", "but", "they", "have",
     "had", "what", "said", "each", "which", "their", "time", "if",
     "up", "out", "many", "then", "them", "these", "so", "some", "her",
     "would", "make", "like", "into", "him", "two", "more", "very",
     "what", "know", "just", "first", "get", "over", "think", "also",
     "your", "work", "life", "only", "can", "still", "should", "after",
     "being", "now", "made", "before", "here", "through", "when", "where"}

\* Default configuration (main/config.py DEFAULT_CONFIG).
RemoveStopwords == TRUE

MinTokenLength == 3

\* The character class [a-zA-Z0-9\\s] of the raw-string pattern
\* r'[^a-zA-Z0-9\\s]': letters, digits, a literal backslash and the letter s.
\* Whitespace is not in the class.
PreprocessKeep == LowerSet \cup UpperSet \cup Digits \cup {"\\", "s"}

\* re.sub(r'[^a-zA-Z0-9\\s]', ' ', text)
SubNonKeptBySpace(text) ==
    [i \in 1..Len(text) |-> IF text[i] \in PreprocessKeep THEN text[i] ELSE " "]

\* str.split(): the maximal runs of non-whitespace characters, as strings.
RECURSIVE SplitFrom(_, _, _)
SplitFrom(text, i, cur) ==
    IF i > Len(text)
    THEN IF cur = "" THEN <<>> ELSE <<cur>>
    ELSE IF text[i] \in Whitespace
         THEN IF cur = "" THEN SplitFrom(text, i + 1, "")
              ELSE <<cur>> \o SplitFrom(text, i + 1, "")
         ELSE SplitFrom(text, i + 1, cur \o text[i])

Split(text) == SplitFrom(text, 1, "")

\* The filter loop of preprocess: short tokens and stopwords are skipped.
KeepToken(token) ==
    /\ ~(Len(token) < MinTokenLength)
    /\ ~(RemoveStopwords /\ token \in STOPWORDS)

preprocess(text) ==
    IF text = <<>> THEN <<>>
    ELSE SelectSeq(Split(SubNonKeptBySpace(Lower(text))), KeepToken)

preprocess_query(query) == preprocess(query)

(***************************************************************************)
(* QueryProcessor (core/query_processor.py).                               *)
(***************************************************************************)
RECURSIVE LStrip(_)
LStrip(text) ==
    IF text # <<>> /\ Head(text) \in Whitespace THEN LStrip(Tail(text)) ELSE text

RECURSIVE RStrip(_)
RStrip(text) ==
    IF text # <<>> /\ text[Len(text)] \in Whitespace
    THEN RStrip(SubSeq(text, 1, Len(text) - 1))
    ELSE text

\* str.strip()
Strip(text) == RStrip(LStrip(text))

\* re.sub(r'\\s+', ' ', text): the raw-string pattern \\s+ is a literal
\* backslash followed by one or more letters s; each match becomes a space.
RECURSIVE SkipS(_, _)
SkipS(text, i) == IF i <= Len(text) /\ text[i] = "s" THEN SkipS(text, i + 1) ELSE i

RECURSIVE SubBackslashS(_, _)
SubBackslashS(text, i) ==
    IF i > Len(text) THEN <<>>
    ELSE IF text[i] = "\\" /\ i < Len(text) /\ text[i + 1] = "s"
         THEN <<" ">> \o SubBackslashS(text, SkipS(text, i + 1))
         ELSE <<text[i]>> \o SubBackslashS(text, i + 1)

\* The character class of r'[^a-zA-Z0-9\\s\\-_.,!?]': letters, digits, a
\* backslash, s, the range from backslash to underscore, and . , ! ?
\* Neither whitespace nor the hyphen is in the class.
CleanKeep ==
    LowerSet \cup UpperSet \cup Digits
        \cup {"\\", "s"} \cup {"\\", "]", "^", "_"} \cup {".", ",", "!", "?"}

\* re.sub(r'[^a-zA-Z0-9\\s\\-_.,!?]', '', text)
DropNonKept(text) == SelectSeq(text, LAMBDA c : c \in CleanKeep)

_clean_query(query) == DropNonKept(SubBackslashS(Strip(query), 1))

process_query(raw_query) ==
    IF raw_query = <<>> \/ Strip(raw_query) = <<>> THEN <<>>
    ELSE preprocess_query(_clean_query(raw_query))

\* term.strip() is truthy: a token has a non-whitespace character.  Tokens
\* are produced by Split, so each is a non-empty run of non-whitespace.
validate_query(query_terms) ==
    IF query_terms = <<>> THEN FALSE
    ELSE Len(SelectSeq(query_terms, LAMBDA term : term # "")) > 0

get_query_info(query_terms) ==
    [term_count |-> Len(query_terms),
     unique_terms |-> Cardinality(Range(query_terms)),
     terms |-> query_terms,
     is_valid |-> validate_query(query_terms)]

(***************************************************************************)
(* Inputs: document ids, document texts and queries.                       *)
(***************************************************************************)
DocIds == {"d1", "d2", "d3"}

\* "machine learning algorithms"
Text_d1 ==
    <<"m","a","c","h","i","n","e"," ","l","e","a","r","n","i","n","g"," ","a",
      "l","g","o","r","i","t","h","m","s">>

\* "deep learning neural networks"
Text_d2 ==
    <<"d","e","e","p"," ","l","e","a","r","n","i","n","g"," ","n","e","u","r",
      "a","l"," ","n","e","t","w","o","r","k","s">>

\* "cooking recipes"
Text_d3 ==
    <<"c","o","o","k","i","n","g"," ","r","e","c","i","p","e","s">>

\* "Together: Machine-Learning!"
Text_mixed ==
    <<"T","o","g","e","t","h","e","r",":"," ","M","a","c","h","i","n","e","-",
      "L","e","a","r","n","i","n","g","!">>

\* "is it a"
Text_stop ==
    <<"i","s"," ","i","t"," ","a">>

\* "logs\Temp files"
Text_backslash ==
    <<"l", "o", "g", "s", "\\", "T", "e", "m", "p", " ", "f", "i", "l", "e", "s">>

\* "machine learning"
Query_ml ==
    <<"m","a","c","h","i","n","e"," ","l","e","a","r","n","i","n","g">>

\* "machine,learning"
Query_ml_comma ==
    <<"m","a","c","h","i","n","e",",","l","e","a","r","n","i","n","g">>

\* "is it a"
Query_stop ==
    <<"i","s"," ","i","t"," ","a">>

\* "to get her"
Query_together ==
    <<"t","o"," ","g","e","t"," ","h","e","r">>

\* " Learning "
Query_learning ==
    <<" ","L","e","a","r","n","i","n","g"," ">>

\* "is"
Query_short ==
    <<"i","s">>

\* "  "
Query_blank ==
    <<" "," ">>

\* "quantum"
Query_miss ==
    <<"q","u","a","n","t","u","m">>

\* "cooking!"
Query_cooking ==
    <<"c","o","o","k","i","n","g","!">>


Queries ==
    {Query_ml, Query_ml_comma, Query_stop, Query_together, Query_learning,
     Query_short, Query_blank, Query_miss, Query_cooking}

\* The corpus of the three-document scenario, as one add_documents argument
\* (a dict: its items in insertion order).
ScenarioBatch == <<<<"d1", Text_d1>>, <<"d2", Text_d2>>, <<"d3", Text_d3>>>>

\* The add_documents arguments tried: one-document dicts (d1 and d2 each with
\* two texts, so that a document is re-added with another text), a
\* two-document dict and the scenario.
Batches ==
    {<<<<"d1", Text_d1>>>>, <<<<"d1", Text_mixed>>>>,
     <<<<"d2", Text_d2>>>>, <<<<"d2", Text_stop>>>>,
     <<<<"d3", Text_d3>>>>,
     <<<<"d3", Text_d3>>, <<"d1", Text_mixed>>>>,
     ScenarioBatch}

\* Bound on the number of add_documents calls in one run
MaxAdds == 2

\* The texts in Batches
TextsTried == {Text_d1, Text_d2, Text_d3, Text_mixed, Text_stop}

\* preprocess on TextsTried and process_query on Queries, computed once
PreprocessOf == [text \in TextsTried |-> preprocess(text)]

ProcessQueryOf == [query \in Queries |-> process_query(query)]

(***************************************************************************)
(* Python containers.  A dict is a function; the empty dict is EmptyDict.  *)
(***************************************************************************)
EmptyDict == [k \in {} |-> 0]

\* d[k] = v
DictSet(d, k, v) == [x \in DOMAIN d \cup {k} |-> IF x = k THEN v ELSE d[x]]

\* d.update(e)
DictUpdate(d, e) ==
    [x \in DOMAIN d \cup DOMAIN e |-> IF x \in DOMAIN e THEN e[x] ELSE d[x]]

RECURSIVE SetToSeq(_)
SetToSeq(S) ==
    IF S = {} THEN <<>>
    ELSE LET e == CHOOSE x \in S : TRUE IN <<e>> \o SetToSeq(S \ {e})

Reverse(s) == [i \in 1..Len(s) |-> s[Len(s) + 1 - i]]

\* The values PYTHONHASHSEED takes here: the iteration order of a set of
\* strings is fixed within one process and differs between processes.
HashSeeds == {0, 1}

\* collections.Counter(seq)
Counter(seq) ==
    [t \in Range(seq) |-> Cardinality({i \in 1..Len(seq) : seq[i] = t})]

RECURSIVE SumOver(_, _)
SumOver(S, f) ==
    IF S = {} THEN 0
    ELSE LET e == CHOOSE x \in S : TRUE IN f[e] + SumOver(S \ {e}, f)

(***************************************************************************)
(* Numbers.  A TF-IDF score s is the integer floor(s * ScoreScale); a      *)
(* similarity is the integer floor(sim * SimScale); an L2 norm n is kept   *)
(* exactly, as the integer n * n (the sum of the squared scores).          *)
(***************************************************************************)
ScoreScale == 100

SimScale == 100000

\* ln(k) * ScoreScale for k = 1..8, to the nearest integer
LnTable == <<0, 69, 110, 139, 161, 179, 195, 208>>

\* A smoothed logarithm: ln((n + 1) / d)
LogSmoothed(n, d) == LnTable[n + 1] - LnTable[d]

\* math.log(n / d)
Log(n, d) == LnTable[n] - LnTable[d]

RECURSIVE IsqrtIn(_, _, _)
IsqrtIn(n, lo, hi) ==
    IF lo >= hi THEN lo
    ELSE LET mid == (lo + hi + 1) \div 2
         IN IF mid * mid <= n THEN IsqrtIn(n, mid, hi) ELSE IsqrtIn(n, lo, mid - 1)

\* floor(sqrt(n)), n < 2^31
Isqrt(n) == IsqrtIn(n, 0, 46340)

\* sum(score**2 for score in vector.values()): the squared L2 norm
SumSquares(vector) == SumOver(DOMAIN vector, [t \in DOMAIN vector |-> vector[t] * vector[t]])


(***************************************************************************)
(* State.                                                                  *)
(***************************************************************************)
VARIABLES
    hash_seed,       \* the process's string hash seed (set iteration order)
    document_store,  \* DocumentStore.documents: <<doc_id, content>> items in dict order
    indexer,         \* the TFIDFIndexer object held by the engine
    ranker,          \* ResultRanker: [max_results, min_similarity_score]
    search_stats,    \* search_stats['total_searches']
    call,            \* the last call on the engine: [op, ret]
    adds,            \* the number of add_documents calls so far
    removed,         \* the ids remove_document returned True for and not added since
    rank_input,      \* the similarities list given to a direct rank_results call
    rank_output,     \* [called, value]: whether it was called, what it returned
    pending,         \* a search in progress: its position and its local variables
    sim_input,       \* the arguments of a direct calculate_similarity call
    sim_output,      \* [called, value]: whether it was called, what it returned
    text_input,      \* the argument of a direct preprocess or process_query call
    text_output,     \* [called, op, value]: which was called, what it returned
    writer           \* a build_index or remove_document in progress: its position

vars ==
    <<hash_seed, document_store, indexer, ranker, search_stats, call, adds,
      removed, rank_input, rank_output, pending, sim_input, sim_output,
      text_input, text_output, writer>>

\* None, and the value of a variable nothing has been assigned to yet
None == "None"

\* Iterating a set of strings: an order fixed by the hash seed.
IterOrder(S) == IF hash_seed = 0 THEN SetToSeq(S) ELSE Reverse(SetToSeq(S))

(***************************************************************************)
(* DocumentStore (storage/document_store.py), its in-memory dict.          *)
(***************************************************************************)
StoreKeys(store) == {store[i][1] : i \in 1..Len(store)}

\* self.documents[doc_id] = content: an existing key keeps its position
StoreAdd(store, doc_id, content) ==
    IF doc_id \in StoreKeys(store)
    THEN [i \in 1..Len(store) |->
            IF store[i][1] = doc_id THEN <<doc_id, content>> ELSE store[i]]
    ELSE Append(store, <<doc_id, content>>)

\* DocumentStore.add_document for each item of the dict, in order
RECURSIVE StoreAddAll(_, _)
StoreAddAll(store, documents) ==
    IF documents = <<>> THEN store
    ELSE StoreAddAll(StoreAdd(store, Head(documents)[1], Head(documents)[2]),
                     Tail(documents))

\* DocumentStore.get_document_content: self.documents.get(doc_id)
get_document_content(store, doc_id) ==
    IF doc_id \in StoreKeys(store)
    THEN store[CHOOSE i \in 1..Len(store) : store[i][1] = doc_id][2]
    ELSE None

\* DocumentStore.get_all_documents: a copy of the dict
get_all_documents(store) == store

\* DocumentStore.remove_document: <<success, documents afterwards>>
StoreRemove(store, doc_id) ==
    IF doc_id \notin StoreKeys(store) THEN <<FALSE, store>>
    ELSE <<TRUE, SelectSeq(store, LAMBDA item : item[1] # doc_id)>>

(***************************************************************************)
(* TFIDFIndexer (core/indexer.py).                                         *)
(***************************************************************************)
\* TFIDFIndexer.__init__
NewIndexer ==
    [documents |-> EmptyDict,
     vocabulary |-> EmptyDict,
     inverted_index |-> EmptyDict,
     document_frequencies |-> EmptyDict,
     document_norms |-> EmptyDict,
     tfidf_vectors |-> EmptyDict,
     total_documents |-> 0]

\* The loop over unique_terms for one document: a new term gets the next
\* vocabulary id, and doc_id joins the term's inverted-index entry (a
\* defaultdict(set) entry is created on first access).
RECURSIVE AddTerms(_, _, _)
AddTerms(ix, terms, doc_id) ==
    IF terms = <<>> THEN ix
    ELSE LET term == Head(terms)
             voc == IF term \in DOMAIN ix.vocabulary THEN ix.vocabulary
                    ELSE DictSet(ix.vocabulary, term,
                                 Cardinality(DOMAIN ix.vocabulary))
             old == IF term \in DOMAIN ix.inverted_index
                    THEN ix.inverted_index[term] ELSE {}
             inv == DictSet(ix.inverted_index, term, old \cup {doc_id})
         IN AddTerms([ix EXCEPT !.vocabulary = voc, !.inverted_index = inv],
                     Tail(terms), doc_id)

\* An ingestion that first takes doc_id out of every inverted-index entry
IndexDocumentPurging(ix, doc_id, text) ==
    LET tokens == PreprocessOf[text]
        purged == [term \in DOMAIN ix.inverted_index |->
                      ix.inverted_index[term] \ {doc_id}]
    IN AddTerms([ix EXCEPT !.documents = DictSet(ix.documents, doc_id, tokens),
                           !.inverted_index = purged],
                IterOrder(Range(tokens)), doc_id)

\* The body of the loop over documents.items()
IndexDocument(ix, doc_id, text) ==
    LET tokens == PreprocessOf[text]
    IN AddTerms([ix EXCEPT !.documents = DictSet(ix.documents, doc_id, tokens)],
                IterOrder(Range(tokens)), doc_id)

RECURSIVE IndexDocuments(_, _)
IndexDocuments(ix, documents) ==
    IF documents = <<>> THEN ix
    ELSE IndexDocuments(IndexDocument(ix, Head(documents)[1], Head(documents)[2]),
                        Tail(documents))

\* An add_documents that counts the documents it is given instead of the
\* documents it holds
AddDocumentsCountingItems(ix, documents) ==
    LET after == IndexDocuments(ix, documents)
    IN [after EXCEPT !.total_documents = ix.total_documents + Len(documents)]

\* TFIDFIndexer.add_documents
IndexerAddDocuments(ix, documents) ==
    LET after == IndexDocuments(ix, documents)
    IN [after EXCEPT !.total_documents = Cardinality(DOMAIN after.documents)]

\* tf * idf with tf = count / doc_length, idf = math.log(N / df)
TfIdf(count, length, n, df) == (count * Log(n, df)) \div length

\* The TF-IDF vector build_index computes for one token sequence
DocumentVector(tokens, n, df) ==
    LET term_counts == Counter(tokens)
    IN [term \in DOMAIN term_counts |->
            TfIdf(term_counts[term], Len(tokens), n, df[term])]

\* A build that adds the posting counts to the frequencies it finds
BuildAddingFrequencies(ix) ==
    LET df == [term \in DOMAIN ix.vocabulary |->
                  (IF term \in DOMAIN ix.document_frequencies
                   THEN ix.document_frequencies[term] ELSE 0)
                  + Cardinality(ix.inverted_index[term])]
        vectors == [doc_id \in DOMAIN ix.documents |->
                        DocumentVector(ix.documents[doc_id], ix.total_documents, df)]
        norms == [doc_id \in DOMAIN ix.documents |-> SumSquares(vectors[doc_id])]
    IN [ix EXCEPT !.document_frequencies = df,
                  !.tfidf_vectors = DictUpdate(ix.tfidf_vectors, vectors),
                  !.document_norms = DictUpdate(ix.document_norms, norms)]

\* An incremental build: frequencies recomputed, vectors and norms computed
\* for the documents that have none yet
BuildNewDocumentsOnly(ix) ==
    LET df == [term \in DOMAIN ix.vocabulary |->
                  Cardinality(ix.inverted_index[term])]
        fresh == DOMAIN ix.documents \ DOMAIN ix.tfidf_vectors
        vectors == [doc_id \in fresh |->
                        DocumentVector(ix.documents[doc_id], ix.total_documents, df)]
        norms == [doc_id \in fresh |-> SumSquares(vectors[doc_id])]
    IN [ix EXCEPT !.document_frequencies = df,
                  !.tfidf_vectors = DictUpdate(ix.tfidf_vectors, vectors),
                  !.document_norms = DictUpdate(ix.document_norms, norms)]

\* A build that computes a norm only for the documents that have none yet
BuildKeepingNorms(ix) ==
    LET df == [term \in DOMAIN ix.vocabulary |->
                  Cardinality(ix.inverted_index[term])]
        vectors == [doc_id \in DOMAIN ix.documents |->
                        DocumentVector(ix.documents[doc_id], ix.total_documents, df)]
        norms == [doc_id \in DOMAIN ix.documents \ DOMAIN ix.document_norms |->
                      SumSquares(vectors[doc_id])]
    IN [ix EXCEPT !.document_frequencies = df,
                  !.tfidf_vectors = DictUpdate(ix.tfidf_vectors, vectors),
                  !.document_norms = DictUpdate(ix.document_norms, norms)]

\* TFIDFIndexer.build_index
IndexerBuildIndex(ix) ==
    LET inv == [term \in DOMAIN ix.inverted_index \cup DOMAIN ix.vocabulary |->
                    IF term \in DOMAIN ix.inverted_index
                    THEN ix.inverted_index[term] ELSE {}]
        df == DictUpdate(ix.document_frequencies,
                         [term \in DOMAIN ix.vocabulary |-> Cardinality(inv[term])])
        vectors == [doc_id \in DOMAIN ix.documents |->
                        DocumentVector(ix.documents[doc_id], ix.total_documents, df)]
        norms == [doc_id \in DOMAIN ix.documents |-> SumSquares(vectors[doc_id])]
    IN [ix EXCEPT !.inverted_index = inv,
                  !.document_frequencies = df,
                  !.tfidf_vectors = DictUpdate(ix.tfidf_vectors, vectors),
                  !.document_norms = DictUpdate(ix.document_norms, norms)]

\* Candidates as the documents that hold every query term of the index
CandidatesOfAllTerms(ix, query_terms) ==
    {doc_id \in DOMAIN ix.documents :
        \A term \in Range(query_terms) \cap DOMAIN ix.inverted_index :
            doc_id \in ix.inverted_index[term]}

\* TFIDFIndexer.get_candidate_documents
get_candidate_documents(ix, query_terms) ==
    UNION {ix.inverted_index[term] :
              term \in Range(query_terms) \cap DOMAIN ix.inverted_index}

\* A query vector that leaves out the terms that have no document frequency
QueryVectorOfBuiltTerms(ix, query_terms) ==
    LET term_counts == Counter(query_terms)
    IN [raised |-> FALSE,
        value |-> [term \in DOMAIN term_counts \cap DOMAIN ix.document_frequencies |->
                      TfIdf(term_counts[term], Len(query_terms),
                            ix.total_documents, ix.document_frequencies[term])]]

\* The terms of the query whose document_frequencies lookup raises KeyError
MissingDf(ix, query_terms) ==
    SelectSeq(query_terms,
              LAMBDA term : /\ term \in DOMAIN ix.vocabulary
                            /\ term \notin DOMAIN ix.document_frequencies)

\* TFIDFIndexer.get_query_vector: [raised, value] where value is the vector,
\* or the key of the KeyError raised at document_frequencies[term]
get_query_vector(ix, query_terms) ==
    IF query_terms = <<>> THEN [raised |-> FALSE, value |-> EmptyDict]
    ELSE IF MissingDf(ix, query_terms) # <<>>
    THEN [raised |-> TRUE, value |-> Head(MissingDf(ix, query_terms))]
    ELSE LET term_counts == Counter(query_terms)
         IN [raised |-> FALSE,
             value |-> [term \in DOMAIN term_counts \cap DOMAIN ix.vocabulary |->
                           TfIdf(term_counts[term], Len(query_terms),
                                 ix.total_documents,
                                 ix.document_frequencies[term])]]

(***************************************************************************)
(* CosineSimilarityCalculator (core/similarity.py).  document_norm is the  *)
(* squared norm (see Numbers).                                             *)
(***************************************************************************)
\* A dot product that counts only when the document has every query term
DotProductIfCovered(query_vector, document_vector) ==
    IF DOMAIN query_vector \subseteq DOMAIN document_vector
    THEN SumOver(DOMAIN query_vector,
                 [term \in DOMAIN query_vector |->
                     query_vector[term] * document_vector[term]])
    ELSE 0

DotProduct(query_vector, document_vector) ==
    SumOver(DOMAIN query_vector \cap DOMAIN document_vector,
            [term \in DOMAIN query_vector \cap DOMAIN document_vector |->
                query_vector[term] * document_vector[term]])

calculate_similarity(query_vector, document_vector, document_norm) ==
    IF DOMAIN query_vector = {} \/ DOMAIN document_vector = {} \/ document_norm = 0
    THEN 0
    ELSE LET dot_product == DotProduct(query_vector, document_vector)
             query_norm == SumSquares(query_vector)
         IN IF dot_product = 0 THEN 0
            ELSE IF query_norm = 0 THEN 0
            ELSE (dot_product * SimScale) \div Isqrt(query_norm * document_norm)

\* batch_calculate_similarities: order lists the keys of document_vectors in
\* dict order; document_norms.get(doc_id, 0.0); zero similarities are left out
RECURSIVE batch_calculate_similarities(_, _, _, _)
batch_calculate_similarities(query_vector, order, document_vectors, document_norms) ==
    IF order = <<>> THEN <<>>
    ELSE LET doc_id == Head(order)
             doc_norm == IF doc_id \in DOMAIN document_norms
                         THEN document_norms[doc_id] ELSE 0
             similarity == calculate_similarity(query_vector,
                                                document_vectors[doc_id], doc_norm)
             rest == batch_calculate_similarities(query_vector, Tail(order),
                                                  document_vectors, document_norms)
         IN IF similarity > 0 THEN <<<<doc_id, similarity>>>> \o rest ELSE rest

(***************************************************************************)
(* ResultRanker (core/ranker.py).                                          *)
(***************************************************************************)
\* Defaults of main/config.py: search.max_results, search.min_similarity_score
\* (0.01, in units of 1 / SimScale)
DefaultMaxResults == 10

DefaultMinSimilarityScore == 1000

\* max_length of _create_preview (200)
PreviewMaxLength == 200

\* round(similarity_score, 4): to the nearest multiple of SimScale / 10^4,
\* halves to the even neighbour
Round4(score) ==
    LET step == SimScale \div 10000
        q == score \div step
        r == score % step
    IN IF 2 * r > step \/ (2 * r = step /\ q % 2 = 1) THEN (q + 1) * step
       ELSE q * step

\* A filter with an exclusive threshold
FilterAboveThreshold(similarities, min_similarity_score) ==
    SelectSeq(similarities, LAMBDA pair : pair[2] > min_similarity_score)

\* The filter of rank_results: the threshold is inclusive
FilterByThreshold(similarities, min_similarity_score) ==
    SelectSeq(similarities, LAMBDA pair : pair[2] >= min_similarity_score)

\* A sort step that puts pair before the entries of equal score
InsertBeforeEqual(sorted, pair) ==
    LET before == Cardinality({i \in 1..Len(sorted) : sorted[i][2] > pair[2]})
    IN SubSeq(sorted, 1, before) \o <<pair>> \o SubSeq(sorted, before + 1, Len(sorted))

\* One step of a stable descending sort: pair goes after every entry whose
\* score is >= its own
InsertDescending(sorted, pair) ==
    LET before == Cardinality({i \in 1..Len(sorted) : sorted[i][2] >= pair[2]})
    IN SubSeq(sorted, 1, before) \o <<pair>> \o SubSeq(sorted, before + 1, Len(sorted))

\* sorted(filtered_results, key=lambda x: x[1], reverse=True): stable
RECURSIVE SortDescendingFrom(_, _)
SortDescendingFrom(sorted, rest) ==
    IF rest = <<>> THEN sorted
    ELSE SortDescendingFrom(InsertDescending(sorted, Head(rest)), Tail(rest))

SortDescending(pairs) == SortDescendingFrom(<<>>, pairs)

\* No cut at max_results
KeepAll(seq, max_results) == seq

\* sorted_results[:max_results]
Truncate(seq, max_results) ==
    SubSeq(seq, 1, IF Len(seq) < max_results THEN Len(seq) ELSE max_results)

\* str.rfind(' '), as a 1-based position (0 when there is no space)
LastSpace(text) ==
    IF \E i \in 1..Len(text) : text[i] = " "
    THEN CHOOSE i \in 1..Len(text) :
            text[i] = " " /\ \A j \in (i + 1)..Len(text) : text[j] # " "
    ELSE 0

\* ResultRanker._create_preview
_create_preview(content) ==
    IF content = <<>> THEN <<>>
    ELSE IF Len(content) <= PreviewMaxLength THEN content
    ELSE LET preview == SubSeq(content, 1, PreviewMaxLength)
             last_space == LastSpace(preview) - 1
         IN (IF 10 * last_space > 8 * PreviewMaxLength
             THEN SubSeq(preview, 1, last_space) ELSE preview) \o <<".", ".", ".">>

\* One formatted result; content and preview are added when the store has a
\* non-empty content for doc_id
FormatResult(pair, rank, store) ==
    IF pair[1] \notin StoreKeys(store) \/ get_document_content(store, pair[1]) = <<>>
    THEN [doc_id |-> pair[1], similarity_score |-> Round4(pair[2]), rank |-> rank]
    ELSE [doc_id |-> pair[1], similarity_score |-> Round4(pair[2]), rank |-> rank,
          content |-> get_document_content(store, pair[1]),
          preview |-> _create_preview(get_document_content(store, pair[1]))]

\* ResultRanker.rank_results
rank_results(similarities, store, max_results, min_similarity_score) ==
    LET filtered_results == FilterByThreshold(similarities, min_similarity_score)
        sorted_results == SortDescending(filtered_results)
        top_results == Truncate(sorted_results, max_results)
        formatted_results ==
            [i \in 1..Len(top_results) |-> FormatResult(top_results[i], i, store)]
    IN [results |-> formatted_results,
        total_results |-> Len(formatted_results),
        total_candidates |-> Len(similarities),
        search_stats |->
            [filtered_by_threshold |-> Len(similarities) - Len(filtered_results),
             returned_results |-> Len(formatted_results)]]

(***************************************************************************)
(* QuestifySearchEngine (main/main.py).                                    *)
(***************************************************************************)
\* Bound on search_stats['total_searches']
MaxSearches == 1

\* The payloads of the early returns of search.  search_time is wall-clock
\* time, which is not modelled: the key is there and its value is 0.
InvalidQueryResult ==
    [results |-> <<>>, total_results |-> 0,
     query_info |-> [error |-> "Invalid or empty query"],
     search_time |-> 0]

NoMatchingTermsResult ==
    [results |-> <<>>, total_results |-> 0,
     query_info |-> [error |-> "No matching terms found in vocabulary"],
     search_time |-> 0]

\* The empty-candidates return with the payload of the vocabulary miss
SameAsNoMatchingTerms ==
    [results |-> <<>>, total_results |-> 0,
     query_info |-> [error |-> "No matching terms found in vocabulary"],
     search_time |-> 0]

NoCandidatesResult ==
    [results |-> <<>>, total_results |-> 0,
     query_info |-> [message |-> "No documents contain the query terms"],
     search_time |-> 0]

\* The except branch: str(e) of a KeyError is the repr of the missing key
SearchErrorResult(key) ==
    [results |-> <<>>, total_results |-> 0,
     query_info |-> [error |-> "Search error: '" \o key \o "'"],
     search_time |-> 0]

\* The candidates whose tfidf_vectors / document_norms lookup raises KeyError
MissingVectors(ix, order) ==
    SelectSeq(order, LAMBDA doc_id : \/ doc_id \notin DOMAIN ix.tfidf_vectors
                                     \/ doc_id \notin DOMAIN ix.document_norms)

\* The scoring and ranking part of the try block, after the candidates are
\* known: [raised, value]
ScoreAndRank(ix, store, rk, query_terms, query_vector, candidates) ==
    LET order == IterOrder(candidates)
    IN IF MissingVectors(ix, order) # <<>>
       THEN [raised |-> TRUE, value |-> Head(MissingVectors(ix, order))]
       ELSE LET similarities ==
                    batch_calculate_similarities(query_vector, order,
                                                 ix.tfidf_vectors, ix.document_norms)
                results == rank_results(similarities, store,
                                        rk.max_results, rk.min_similarity_score)
            IN [raised |-> FALSE,
                value |-> [results |-> results.results,
                           total_results |-> results.total_results,
                           total_candidates |-> Cardinality(candidates),
                           search_stats |-> results.search_stats,
                           query_info |-> get_query_info(query_terms),
                           search_time |-> 0]]

\* The try block of search: [raised, value], value the returned dict or the
\* key of the KeyError
SearchTry(ix, store, rk, query) ==
    LET query_terms == ProcessQueryOf[query]
        query_vector == get_query_vector(ix, query_terms)
        candidates == get_candidate_documents(ix, query_terms)
    IN IF ~validate_query(query_terms)
       THEN [raised |-> FALSE, value |-> InvalidQueryResult]
       ELSE IF query_vector.raised THEN query_vector
       ELSE IF DOMAIN query_vector.value = {}
       THEN [raised |-> FALSE, value |-> NoMatchingTermsResult]
       ELSE IF candidates = {}
       THEN [raised |-> FALSE, value |-> NoCandidatesResult]
       ELSE ScoreAndRank(ix, store, rk, query_terms, query_vector.value, candidates)

\* A search without the except branch: the exception reaches the caller
CatchNothing(attempt) == attempt

\* try ... except Exception: the outcome of the call, [raised, value]
CatchAll(attempt) ==
    IF attempt.raised
    THEN [raised |-> FALSE, value |-> SearchErrorResult(attempt.value)]
    ELSE attempt

\* QuestifySearchEngine.search on the current state: [raised, value]
search(query) == CatchAll(SearchTry(indexer, document_store, ranker, query))

\* _update_search_stats runs on the normal return only
UpdatesStats(outcome) ==
    /\ ~outcome.raised
    /\ "search_stats" \in DOMAIN outcome.value

\* A removal that re-ingests into the indexer it already has, instead of a
\* new TFIDFIndexer
ReuseIndexer(all_documents) ==
    IndexerBuildIndex(IndexerAddDocuments(indexer, all_documents))

\* QuestifySearchEngine.remove_document, the index part: the indexer after a
\* successful removal from the store
RebuildIndexer(all_documents) ==
    IF all_documents = <<>> THEN NewIndexer
    ELSE IndexerBuildIndex(IndexerAddDocuments(NewIndexer, all_documents))

\* A removal that drops the document from the store and keeps the index
RemoveFromStoreOnly(store, ix, doc_id) ==
    LET removal == StoreRemove(store, doc_id)
    IN [ret |-> removal[1], store |-> removal[2], indexer |-> ix]

\* A removal that takes the document out of the index it has: out of the
\* token map, the vectors, the norms and every inverted-index entry, the
\* vocabulary staying as it is
RemoveInPlace(store, ix, doc_id) ==
    LET removal == StoreRemove(store, doc_id)
        without(d) == [k \in DOMAIN d \ {doc_id} |-> d[k]]
    IN IF removal[1]
       THEN [ret |-> TRUE, store |-> removal[2],
             indexer |->
                 [ix EXCEPT !.documents = without(ix.documents),
                            !.tfidf_vectors = without(ix.tfidf_vectors),
                            !.document_norms = without(ix.document_norms),
                            !.inverted_index =
                                [term \in DOMAIN ix.inverted_index |->
                                    ix.inverted_index[term] \ {doc_id}],
                            !.total_documents = Len(removal[2])]]
       ELSE [ret |-> FALSE, store |-> store, indexer |-> ix]

remove_document(store, ix, doc_id) ==
    LET removal == StoreRemove(store, doc_id)
    IN IF removal[1]
       THEN [ret |-> TRUE, store |-> removal[2],
             indexer |-> RebuildIndexer(get_all_documents(removal[2]))]
       ELSE [ret |-> FALSE, store |-> store, indexer |-> ix]

(***************************************************************************)
(* The engine as a state machine.                                          *)
(***************************************************************************)
\* After QuestifySearchEngine() on an empty storage directory, with the
\* default configuration
Init ==
    /\ hash_seed \in HashSeeds
    /\ document_store = <<>>
    /\ indexer = NewIndexer
    /\ ranker = [max_results |-> DefaultMaxResults,
                 min_similarity_score |-> DefaultMinSimilarityScore]
    /\ search_stats = 0
    /\ call = [op |-> "__init__", ret |-> None]
    /\ adds = 0
    /\ removed = {}
    /\ rank_input = <<>>
    /\ rank_output = [called |-> FALSE]
    /\ pending = [pc |-> "idle"]
    /\ sim_input = <<>>
    /\ sim_output = [called |-> FALSE]
    /\ text_input = <<>>
    /\ text_output = [called |-> FALSE]
    /\ writer = [pc |-> "idle"]

AddDocuments(documents) ==
    /\ adds < MaxAdds
    /\ adds' = adds + 1
    /\ document_store' = StoreAddAll(document_store, documents)
    /\ indexer' = IndexerAddDocuments(indexer, documents)
    /\ call' = [op |-> "add_documents", ret |-> None]
    /\ removed' = removed \ {documents[i][1] : i \in 1..Len(documents)}
    /\ UNCHANGED <<hash_seed, ranker, search_stats, rank_input, rank_output, pending,
                   sim_input, sim_output,
                   text_input, text_output, writer>>

BuildIndex ==
    /\ indexer' = IndexerBuildIndex(indexer)
    /\ call' = [op |-> "build_index", ret |-> None]
    /\ UNCHANGED <<hash_seed, document_store, ranker, search_stats, adds, removed,
                   rank_input, rank_output, pending,
                   sim_input, sim_output,
                   text_input, text_output, writer>>

\* A search that looks its terms up with inverted_index[term]: the
\* defaultdict creates an empty entry for every term it does not have
SearchCreatingEntries(query) ==
    LET outcome == search(query)
        updates == UpdatesStats(outcome)
        looked_up == Range(ProcessQueryOf[query])
    IN
    /\ updates => search_stats < MaxSearches
    /\ call' = [op |-> "search", ret |-> outcome]
    /\ search_stats' = IF updates THEN search_stats + 1 ELSE search_stats
    /\ indexer' =
           [indexer EXCEPT !.inverted_index =
               [term \in DOMAIN indexer.inverted_index \cup looked_up |->
                   IF term \in DOMAIN indexer.inverted_index
                   THEN indexer.inverted_index[term] ELSE {}]]
    /\ UNCHANGED <<hash_seed, document_store, ranker, adds, removed,
                   rank_input, rank_output, pending, sim_input, sim_output,
                   text_input, text_output, writer>>

Search(query) ==
    LET outcome == search(query)
        updates == UpdatesStats(outcome)
    IN
    /\ updates => search_stats < MaxSearches
    /\ call' = [op |-> "search", ret |-> outcome]
    /\ search_stats' = IF updates THEN search_stats + 1 ELSE search_stats
    /\ UNCHANGED <<hash_seed, document_store, indexer, ranker, adds, removed,
                   rank_input, rank_output, pending,
                   sim_input, sim_output,
                   text_input, text_output, writer>>

RemoveDocument(doc_id) ==
    LET outcome == remove_document(document_store, indexer, doc_id)
    IN /\ document_store' = outcome.store
       /\ indexer' = outcome.indexer
       /\ call' = [op |-> "remove_document", ret |-> outcome.ret]
       /\ removed' = IF outcome.ret THEN removed \cup {doc_id} ELSE removed
       /\ UNCHANGED <<hash_seed, ranker, search_stats, adds, rank_input, rank_output, pending,
                   sim_input, sim_output,
                   text_input, text_output, writer>>

Next ==
    \/ \E documents \in Batches : AddDocuments(documents)
    \/ BuildIndex
    \/ \E query \in Queries : Search(query)
    \/ \E doc_id \in DocIds : RemoveDocument(doc_id)

Spec == Init /\ [][Next]_vars

(***************************************************************************)
(* search running in a second thread.  search reads self.indexer once for  *)
(* the query vector, once for the candidates and once for the vectors and  *)
(* norms; between two of these reads another thread's add_documents,       *)
(* build_index or remove_document may run.  The writers are taken whole.   *)
(***************************************************************************)
\* The add_documents arguments and the queries of the interleaved runs
InterleavedBatches == {<<<<"d1", Text_d1>>>>, <<<<"d3", Text_d3>>>>, ScenarioBatch}

InterleavedQueries == {Query_blank, Query_miss, Query_cooking, Query_learning}

\* search returns outcome; its local variables stay visible in pending
SearchReturn(outcome, locals) ==
    /\ call' = [op |-> "search", ret |-> outcome]
    /\ pending' = [locals EXCEPT !.pc = "done"]
    /\ search_stats' = IF UpdatesStats(outcome) THEN search_stats + 1 ELSE search_stats

\* process_query and validate_query
SearchBegin(query) ==
    /\ pending.pc \in {"idle", "done"}
    /\ search_stats < MaxSearches
    /\ LET locals == [pc |-> "vector", query_terms |-> ProcessQueryOf[query]]
       IN IF ~validate_query(locals.query_terms)
          THEN SearchReturn(CatchAll([raised |-> FALSE, value |-> InvalidQueryResult]),
                            locals)
          ELSE pending' = locals /\ UNCHANGED <<call, search_stats>>
    /\ UNCHANGED <<hash_seed, document_store, indexer, ranker, adds, removed,
                   rank_input, rank_output, sim_input, sim_output,
                   text_input, text_output, writer>>

\* self.indexer.get_query_vector(query_terms)
SearchVector ==
    /\ pending.pc = "vector"
    /\ LET query_vector == get_query_vector(indexer, pending.query_terms)
           locals == [pc |-> "candidates", query_terms |-> pending.query_terms,
                      query_vector |-> query_vector.value]
       IN IF query_vector.raised
          THEN SearchReturn(CatchAll(query_vector), pending)
          ELSE IF DOMAIN query_vector.value = {}
          THEN SearchReturn(CatchAll([raised |-> FALSE, value |-> NoMatchingTermsResult]),
                            locals)
          ELSE pending' = locals /\ UNCHANGED <<call, search_stats>>
    /\ UNCHANGED <<hash_seed, document_store, indexer, ranker, adds, removed,
                   rank_input, rank_output, sim_input, sim_output,
                   text_input, text_output, writer>>

\* self.indexer.get_candidate_documents(query_terms)
SearchCandidates ==
    /\ pending.pc = "candidates"
    /\ LET locals == [pc |-> "score", query_terms |-> pending.query_terms,
                      query_vector |-> pending.query_vector,
                      candidates |-> get_candidate_documents(indexer,
                                                             pending.query_terms)]
       IN IF locals.candidates = {}
          THEN SearchReturn(CatchAll([raised |-> FALSE, value |-> NoCandidatesResult]),
                            locals)
          ELSE pending' = locals /\ UNCHANGED <<call, search_stats>>
    /\ UNCHANGED <<hash_seed, document_store, indexer, ranker, adds, removed,
                   rank_input, rank_output, sim_input, sim_output,
                   text_input, text_output, writer>>

\* The vectors and norms of the candidates, the similarities, the ranking
SearchScore ==
    /\ pending.pc = "score"
    /\ SearchReturn(CatchAll(ScoreAndRank(indexer, document_store, ranker,
                                          pending.query_terms, pending.query_vector,
                                          pending.candidates)),
                    pending)
    /\ UNCHANGED <<hash_seed, document_store, indexer, ranker, adds, removed,
                   rank_input, rank_output, sim_input, sim_output,
                   text_input, text_output, writer>>

NextInterleaved ==
    \/ \E documents \in InterleavedBatches : AddDocuments(documents)
    \/ BuildIndex
    \/ \E doc_id \in DocIds : RemoveDocument(doc_id)
    \/ \E query \in InterleavedQueries : SearchBegin(query)
    \/ SearchVector
    \/ SearchCandidates
    \/ SearchScore

SpecInterleaved == Init /\ [][NextInterleaved]_vars

(***************************************************************************)
(* build_index and remove_document running in one thread, step by step,    *)
(* and search in a second thread.  build_index is taken as its first loop  *)
(* (the document frequencies) and then one step per document of its second *)
(* loop (the vector and the norm of that document); remove_document as the *)
(* removal from the store with the assignment of a new TFIDFIndexer, then  *)
(* the re-ingestion of the stored documents, then the steps of             *)
(* build_index.  add_documents is taken whole.                             *)
(***************************************************************************)
\* The add_documents arguments and the queries of these runs
RebuildBatches == {<<<<"d1", Text_d1>>>>, <<<<"d2", Text_d2>>>>}

RebuildQueries == {Query_learning, Query_miss}

\* The first loop of build_index
IndexerBuildFrequencies(ix) ==
    LET inv == [term \in DOMAIN ix.inverted_index \cup DOMAIN ix.vocabulary |->
                    IF term \in DOMAIN ix.inverted_index
                    THEN ix.inverted_index[term] ELSE {}]
        df == DictUpdate(ix.document_frequencies,
                         [term \in DOMAIN ix.vocabulary |-> Cardinality(inv[term])])
    IN [ix EXCEPT !.inverted_index = inv, !.document_frequencies = df]

\* One iteration of the second loop of build_index
IndexerBuildVector(ix, doc_id) ==
    LET tfidf_vector == DocumentVector(ix.documents[doc_id], ix.total_documents,
                                       ix.document_frequencies)
    IN [ix EXCEPT !.tfidf_vectors = DictSet(ix.tfidf_vectors, doc_id, tfidf_vector),
                  !.document_norms = DictSet(ix.document_norms, doc_id,
                                             SumSquares(tfidf_vector))]

\* self.documents.items() of the indexer: the documents in insertion order,
\* which is the order of the store
DocumentOrder == [i \in 1..Len(document_store) |-> document_store[i][1]]

WriterAddDocuments(documents) ==
    /\ writer.pc = "idle"
    /\ AddDocuments(documents)

\* QuestifySearchEngine.build_index is entered
WriterBuildBegin ==
    /\ writer.pc = "idle"
    /\ writer' = [pc |-> "frequencies", op |-> "build_index", start |-> indexer]
    /\ UNCHANGED <<hash_seed, document_store, indexer, ranker, search_stats, call,
                   adds, removed, rank_input, rank_output, pending, sim_input,
                   sim_output, text_input, text_output>>

\* A build_index whose first step also writes every vector and norm
WriterBuildAtOnce ==
    /\ writer.pc = "frequencies"
    /\ indexer' = IndexerBuildIndex(indexer)
    /\ writer' = [pc |-> "vectors", op |-> writer.op, start |-> writer.start,
                  todo |-> <<>>]
    /\ UNCHANGED <<hash_seed, document_store, ranker, search_stats, call,
                   adds, removed, rank_input, rank_output, pending, sim_input,
                   sim_output, text_input, text_output>>

WriterBuildFrequencies ==
    /\ writer.pc = "frequencies"
    /\ indexer' = IndexerBuildFrequencies(indexer)
    /\ writer' = [pc |-> "vectors", op |-> writer.op, start |-> writer.start,
                  todo |-> DocumentOrder]
    /\ UNCHANGED <<hash_seed, document_store, ranker, search_stats, call,
                   adds, removed, rank_input, rank_output, pending, sim_input,
                   sim_output, text_input, text_output>>

WriterBuildVector ==
    /\ writer.pc = "vectors"
    /\ writer.todo # <<>>
    /\ indexer' = IndexerBuildVector(indexer, Head(writer.todo))
    /\ writer' = [writer EXCEPT !.todo = Tail(writer.todo)]
    /\ UNCHANGED <<hash_seed, document_store, ranker, search_stats, call,
                   adds, removed, rank_input, rank_output, pending, sim_input,
                   sim_output, text_input, text_output>>

\* build_index returns, and with it the remove_document that called it
WriterReturn ==
    /\ writer.pc = "vectors"
    /\ writer.todo = <<>>
    /\ writer' = [pc |-> "idle"]
    /\ call' = [op |-> writer.op,
                ret |-> IF writer.op = "remove_document" THEN TRUE ELSE None]
    /\ UNCHANGED <<hash_seed, document_store, indexer, ranker, search_stats,
                   adds, removed, rank_input, rank_output, pending, sim_input,
                   sim_output, text_input, text_output>>

\* document_store.remove_document(doc_id) and, when it succeeds,
\* self.indexer = TFIDFIndexer(self.preprocessor)
WriterRemoveBegin(doc_id) ==
    /\ writer.pc = "idle"
    /\ LET removal == StoreRemove(document_store, doc_id)
       IN IF removal[1]
          THEN /\ document_store' = removal[2]
               /\ indexer' = NewIndexer
               /\ removed' = removed \cup {doc_id}
               /\ writer' = [pc |-> "reingest", op |-> "remove_document"]
               /\ UNCHANGED call
          ELSE /\ call' = [op |-> "remove_document", ret |-> FALSE]
               /\ UNCHANGED <<document_store, indexer, removed, writer>>
    /\ UNCHANGED <<hash_seed, ranker, search_stats, adds, rank_input, rank_output,
                   pending, sim_input, sim_output, text_input, text_output>>

\* if all_documents: self.indexer.add_documents(all_documents), and
\* build_index is entered; otherwise remove_document returns
WriterReingest ==
    /\ writer.pc = "reingest"
    /\ LET all_documents == get_all_documents(document_store)
       IN IF all_documents = <<>>
          THEN /\ writer' = [pc |-> "idle"]
               /\ call' = [op |-> "remove_document", ret |-> TRUE]
               /\ UNCHANGED indexer
          ELSE /\ indexer' = IndexerAddDocuments(indexer, all_documents)
               /\ writer' = [pc |-> "frequencies", op |-> "remove_document",
                             start |-> indexer']
               /\ UNCHANGED call
    /\ UNCHANGED <<hash_seed, document_store, ranker, search_stats, adds, removed,
                   rank_input, rank_output, pending, sim_input, sim_output,
                   text_input, text_output>>

NextRebuild ==
    \/ \E documents \in RebuildBatches : WriterAddDocuments(documents)
    \/ WriterBuildBegin
    \/ WriterBuildFrequencies
    \/ WriterBuildVector
    \/ WriterReturn
    \/ \E doc_id \in DocIds : WriterRemoveBegin(doc_id)
    \/ WriterReingest
    \/ \E query \in RebuildQueries : SearchBegin(query)
    \/ SearchVector
    \/ SearchCandidates
    \/ SearchScore

SpecRebuild == Init /\ [][NextRebuild]_vars

(***************************************************************************)
(* ResultRanker.rank_results called directly, on an engine that holds the  *)
(* built three-document corpus: the similarities list and the ranker's     *)
(* settings are drawn from bounded sets.                                   *)
(***************************************************************************)
\* Bound on the length of the similarities list
MaxRankList == 2

\* Scores tried, in units of 1 / SimScale: around the thresholds, and
\* values round(.., 4) moves
RankScores == {995, 1000, 1005, 25000}

\* max_results and min_similarity_score values tried: values the UI's sliders
\* give (1..20, and 0.0..1.0 in steps of 0.01), and a threshold that is not
\* a multiple of 0.0001, which only the configuration can give
MaxResultsTried == {1, DefaultMaxResults}

ThresholdsTried == {DefaultMinSimilarityScore, 1005, 25000}

\* Lists of (doc_id, score) pairs with distinct doc_ids, as
\* batch_calculate_similarities builds them from a dict
RankInputs ==
    UNION {{pairs \in [1..n -> DocIds \X RankScores] :
               \A i, j \in 1..n : i # j => pairs[i][1] # pairs[j][1]} :
           n \in 0..MaxRankList}

InitRank ==
    /\ hash_seed \in HashSeeds
    /\ document_store = ScenarioBatch
    /\ indexer = IndexerBuildIndex(IndexerAddDocuments(NewIndexer, ScenarioBatch))
    /\ ranker \in [max_results : MaxResultsTried,
                   min_similarity_score : ThresholdsTried]
    /\ search_stats = 0
    /\ call = [op |-> "build_index", ret |-> None]
    /\ adds = 1
    /\ removed = {}
    /\ rank_input \in RankInputs
    /\ rank_output = [called |-> FALSE]
    /\ pending = [pc |-> "idle"]
    /\ sim_input = <<>>
    /\ sim_output = [called |-> FALSE]
    /\ text_input = <<>>
    /\ text_output = [called |-> FALSE]
    /\ writer = [pc |-> "idle"]

RankResults ==
    /\ ~rank_output.called
    /\ rank_output' =
           [called |-> TRUE,
            value |-> rank_results(rank_input, document_store, ranker.max_results,
                                   ranker.min_similarity_score)]
    /\ UNCHANGED <<hash_seed, document_store, indexer, ranker, search_stats, call,
                   adds, removed, rank_input, pending, sim_input, sim_output,
                   text_input, text_output, writer>>

\* The queries searched with the ranker settings tried
RankQueries == {Query_blank, Query_miss, Query_cooking, Query_learning, Query_ml_comma}

NextRank ==
    \/ RankResults
    \/ \E query \in RankQueries : Search(query)

SpecRank == InitRank /\ [][NextRank]_vars

(***************************************************************************)
(* CosineSimilarityCalculator.calculate_similarity called directly: the    *)
(* two vectors and the norm are drawn from bounded sets.  Scores are       *)
(* non-negative; the norm argument (squared, as everywhere) is the         *)
(* document vector's own or any other value tried.                         *)
(***************************************************************************)
SimTerms == {"machine", "learning"}

SimScores == {0, 13, 36}

SimVectors == UNION {[terms -> SimScores] : terms \in SUBSET SimTerms}

\* Squared norms tried besides the document vector's own
SimNorms == {0, 1, 169, 2592}

SimInputs ==
    {[query_vector |-> q, document_vector |-> d, document_norm |-> n] :
        q \in SimVectors, d \in SimVectors, n \in SimNorms}
    \cup {[query_vector |-> q, document_vector |-> d, document_norm |-> SumSquares(d)] :
             q \in SimVectors, d \in SimVectors}

InitSim ==
    /\ hash_seed \in HashSeeds
    /\ document_store = <<>>
    /\ indexer = NewIndexer
    /\ ranker = [max_results |-> DefaultMaxResults,
                 min_similarity_score |-> DefaultMinSimilarityScore]
    /\ search_stats = 0
    /\ call = [op |-> "__init__", ret |-> None]
    /\ adds = 0
    /\ removed = {}
    /\ rank_input = <<>>
    /\ rank_output = [called |-> FALSE]
    /\ pending = [pc |-> "idle"]
    /\ sim_input \in SimInputs
    /\ sim_output = [called |-> FALSE]
    /\ text_input = <<>>
    /\ text_output = [called |-> FALSE]
    /\ writer = [pc |-> "idle"]

CalculateSimilarity ==
    /\ ~sim_output.called
    /\ sim_output' =
           [called |-> TRUE,
            value |-> calculate_similarity(sim_input.query_vector,
                                           sim_input.document_vector,
                                           sim_input.document_norm)]
    /\ UNCHANGED <<hash_seed, document_store, indexer, ranker, search_stats, call,
                   adds, removed, rank_input, rank_output, pending, sim_input,
                   text_input, text_output, writer>>

NextSim == CalculateSimilarity

SpecSim == InitSim /\ [][NextSim]_vars

(***************************************************************************)
(* TextPreprocessor.preprocess and QueryProcessor.process_query called     *)
(* directly, on every text of at most MaxTextLen characters over a small   *)
(* alphabet and on the texts and queries used elsewhere.                   *)
(***************************************************************************)
\* A lowercase letter, an uppercase letter, a digit, a space, a backslash
\* and a hyphen
TextAlphabet == {"a", "B", "1", " ", "\\", "-"}

\* Bound on the length of the texts enumerated
MaxTextLen == 3

ShortTexts == UNION {[1..n -> TextAlphabet] : n \in 0..MaxTextLen}

TextInputs == ShortTexts \cup TextsTried \cup Queries \cup {Text_backslash}

InitText ==
    /\ hash_seed \in HashSeeds
    /\ document_store = <<>>
    /\ indexer = NewIndexer
    /\ ranker = [max_results |-> DefaultMaxResults,
                 min_similarity_score |-> DefaultMinSimilarityScore]
    /\ search_stats = 0
    /\ call = [op |-> "__init__", ret |-> None]
    /\ adds = 0
    /\ removed = {}
    /\ rank_input = <<>>
    /\ rank_output = [called |-> FALSE]
    /\ pending = [pc |-> "idle"]
    /\ sim_input = <<>>
    /\ sim_output = [called |-> FALSE]
    /\ text_input \in TextInputs
    /\ text_output = [called |-> FALSE]
    /\ writer = [pc |-> "idle"]

Preprocess ==
    /\ ~text_output.called
    /\ text_output' = [called |-> TRUE, op |-> "preprocess",
                       value |-> preprocess(text_input)]
    /\ UNCHANGED <<hash_seed, document_store, indexer, ranker, search_stats, call,
                   adds, removed, rank_input, rank_output, pending, sim_input,
                   sim_output, text_input, writer>>

ProcessQuery ==
    /\ ~text_output.called
    /\ text_output' = [called |-> TRUE, op |-> "process_query",
                       value |-> process_query(text_input)]
    /\ UNCHANGED <<hash_seed, document_store, indexer, ranker, search_stats, call,
                   adds, removed, rank_input, rank_output, pending, sim_input,
                   sim_output, text_input, writer>>

NextText == Preprocess \/ ProcessQuery

SpecText == InitText /\ [][NextText]_vars

(***************************************************************************)
(* Properties.                                                             *)
(***************************************************************************)
\* The candidate set search computes for a query in the current state
Candidates(query) == get_candidate_documents(indexer, ProcessQueryOf[query])

ResultIds(value) == {value.results[i].doc_id : i \in 1..Len(value.results)}

RankOf(value, doc_id) ==
    value.results[CHOOSE i \in 1..Len(value.results) :
                     value.results[i].doc_id = doc_id].rank

\* The engine holds exactly the three-document corpus, added and built
ScenarioIndexed ==
    /\ document_store = ScenarioBatch
    /\ indexer = IndexerBuildIndex(IndexerAddDocuments(NewIndexer, ScenarioBatch))

\* C1: with the default configuration, after add_documents of the
\* three-document corpus and build_index, search("machine learning") has d1
\* and d2 among its candidates and not d3, returns d1 and d2, and ranks d1 at
\* or above d2.
C1_ScenarioRanking ==
    ScenarioIndexed =>
        LET value == search(Query_ml).value
        IN /\ "d1" \in Candidates(Query_ml)
           /\ "d2" \in Candidates(Query_ml)
           /\ "d3" \notin Candidates(Query_ml)
           /\ {"d1", "d2"} \subseteq ResultIds(value)
           /\ RankOf(value, "d1") <= RankOf(value, "d2")

\* A query made only of stopwords and of words shorter than the minimum
\* token length, separated by whitespace
StopOrShortOnly(query) ==
    LET words == Split(Lower(query))
    IN /\ words # <<>>
       /\ \A i \in 1..Len(query) : query[i] \in LowerSet \cup UpperSet \cup Whitespace
       /\ \A i \in 1..Len(words) :
              words[i] \in STOPWORDS \/ Len(words[i]) < MinTokenLength

StopOrShortQueries == {query \in Queries : StopOrShortOnly(query)}

\* C2: in every engine state, a query made only of stopwords and short words
\* gets zero results and is_valid = false in query_info, without an exception.
C2_StopwordQueryInvalid ==
    \A query \in StopOrShortQueries :
        LET outcome == search(query)
        IN /\ ~outcome.raised
           /\ outcome.value.results = <<>>
           /\ outcome.value.total_results = 0
           /\ "is_valid" \in DOMAIN outcome.value.query_info
           /\ outcome.value.query_info.is_valid = FALSE

\* C3: on an empty corpus every query gets zero candidates and zero results
\* without an exception, and a payload that is neither the invalid-query
\* payload nor the vocabulary-miss payload.
C3_EmptyCorpusMessage ==
    document_store = <<>> =>
        \A query \in Queries :
            LET outcome == search(query)
            IN /\ ~outcome.raised
               /\ Candidates(query) = {}
               /\ outcome.value.results = <<>>
               /\ outcome.value.total_results = 0
               /\ outcome.value.query_info # InvalidQueryResult.query_info
               /\ outcome.value.query_info # NoMatchingTermsResult.query_info

\* C4: in every reachable state search returns a result map for every query
\* and raises nothing; when the try block fails, the map has no results,
\* total_results = 0 and an error entry in query_info.
C4_SearchNeverRaises ==
    /\ \A query \in Queries :
           LET attempt == SearchTry(indexer, document_store, ranker, query)
               outcome == search(query)
           IN /\ ~outcome.raised
              /\ {"results", "total_results", "query_info"} \subseteq DOMAIN outcome.value
              /\ attempt.raised =>
                     /\ outcome.value.results = <<>>
                     /\ outcome.value.total_results = 0
                     /\ "error" \in DOMAIN outcome.value.query_info
    /\ call.op = "search" => ~call.ret.raised

\* A search has returned the error payload of a failed lookup
C4_Witness ==
    /\ call.op = "search"
    /\ ~call.ret.raised
    /\ \E key \in DocIds \cup DOMAIN indexer.vocabulary :
           call.ret.value = SearchErrorResult(key)

\* C6: a document remove_document returned True for, and not added since, is
\* in no candidate set and in no ranked result, for every query.
C6_RemovedNeverFound ==
    \A doc_id \in removed :
        /\ \A query \in Queries :
               /\ doc_id \notin Candidates(query)
               /\ doc_id \notin ResultIds(search(query).value)
        /\ call.op = "search" => doc_id \notin ResultIds(call.ret.value)

\* After a removal, a search has returned results from the remaining corpus
C6_Witness ==
    /\ removed # {}
    /\ call.op = "search"
    /\ call.ret.value.results # <<>>

\* The index a corpus determines: token sequences, inverted index, df,
\* vectors and norms of exactly the stored documents
IndexMatchesCorpus(ix, store) ==
    LET tokens == [doc_id \in StoreKeys(store) |->
                      PreprocessOf[get_document_content(store, doc_id)]]
        terms == UNION {Range(tokens[doc_id]) : doc_id \in StoreKeys(store)}
    IN /\ ix.documents = tokens
       /\ ix.total_documents = Cardinality(StoreKeys(store))
       /\ DOMAIN ix.vocabulary = terms
       /\ {ix.vocabulary[term] : term \in terms} = 0..(Cardinality(terms) - 1)
       /\ ix.inverted_index =
             [term \in terms |->
                 {doc_id \in StoreKeys(store) : term \in Range(tokens[doc_id])}]
       /\ ix.document_frequencies =
             [term \in terms |-> Cardinality(ix.inverted_index[term])]
       /\ DOMAIN ix.tfidf_vectors = StoreKeys(store)
       /\ \A doc_id \in StoreKeys(store) :
              DOMAIN ix.tfidf_vectors[doc_id] = Range(tokens[doc_id])
       /\ ix.document_norms =
             [doc_id \in StoreKeys(store) |-> SumSquares(ix.tfidf_vectors[doc_id])]

RankedResults == rank_output.value.results

InputScore(doc_id) ==
    rank_input[CHOOSE i \in 1..Len(rank_input) : rank_input[i][1] = doc_id][2]

InputIndex(doc_id) ==
    CHOOSE i \in 1..Len(rank_input) : rank_input[i][1] = doc_id

\* The positions of the input entries that pass the threshold
Passing ==
    {i \in 1..Len(rank_input) : rank_input[i][2] >= ranker.min_similarity_score}

\* C8: every entry of the ranked output has an input score >= the threshold
\* (and shows a rounded score >= the threshold when the threshold has at most
\* four decimals); every entry the threshold step removes has score < the
\* threshold; filtered_by_threshold counts the input entries below it.
C8_ThresholdInclusive ==
    rank_output.called =>
        LET threshold == ranker.min_similarity_score
            kept == FilterByThreshold(rank_input, threshold)
        IN /\ \A k \in 1..Len(RankedResults) :
                  /\ RankedResults[k].doc_id \in {rank_input[i][1] : i \in Passing}
                  /\ InputScore(RankedResults[k].doc_id) >= threshold
                  /\ Round4(threshold) = threshold =>
                         RankedResults[k].similarity_score >= threshold
           /\ \A i \in 1..Len(rank_input) :
                  /\ rank_input[i] \notin Range(kept) => rank_input[i][2] < threshold
                  /\ (/\ rank_input[i][1] \notin ResultIds(rank_output.value)
                      /\ Len(RankedResults) < ranker.max_results)
                         => rank_input[i][2] < threshold
           /\ rank_output.value.search_stats.filtered_by_threshold =
                  Cardinality((1..Len(rank_input)) \ Passing)

\* An entry exactly at the threshold was returned and another was filtered out
C8_Witness ==
    /\ rank_output.called
    /\ \E k \in 1..Len(RankedResults) :
           InputScore(RankedResults[k].doc_id) = ranker.min_similarity_score
    /\ rank_output.value.search_stats.filtered_by_threshold > 0

\* C9: the ranked output is no longer than max_results and no longer than the
\* number of entries passing the threshold; total_results is the length of
\* the results list; in a search, total_results <= total_candidates.
C9_OutputLength ==
    /\ rank_output.called =>
           /\ Len(RankedResults) <= ranker.max_results
           /\ Len(RankedResults) <= Cardinality(Passing)
           /\ rank_output.value.total_results = Len(RankedResults)
           /\ rank_output.value.total_results <= rank_output.value.total_candidates
    /\ call.op = "search" =>
           /\ Len(call.ret.value.results) <= ranker.max_results
           /\ call.ret.value.total_results = Len(call.ret.value.results)
           /\ "total_candidates" \in DOMAIN call.ret.value =>
                  call.ret.value.total_results <= call.ret.value.total_candidates
           /\ "total_candidates" \notin DOMAIN call.ret.value =>
                  call.ret.value.total_results = 0

\* rank_results has cut its output at max_results, and a search has returned
\* fewer results than it had candidates
C9_Witness ==
    /\ rank_output.called
    /\ Cardinality(Passing) > ranker.max_results
    /\ Len(RankedResults) = ranker.max_results
    /\ call.op = "search"
    /\ "total_candidates" \in DOMAIN call.ret.value
    /\ 0 < call.ret.value.total_results
    /\ call.ret.value.total_results < call.ret.value.total_candidates

\* Input entry i goes before input entry j in a stable descending sort
Precedes(i, j) ==
    \/ rank_input[i][2] > rank_input[j][2]
    \/ rank_input[i][2] = rank_input[j][2] /\ i < j

\* C10: the results are the entries passing the threshold, in non-increasing
\* score order with equal scores in input order, cut to the first max_results
\* of them, and the entry at position k has rank k.
C10_StableSortTruncateRank ==
    rank_output.called =>
        LET at(k) == InputIndex(RankedResults[k].doc_id)
        IN /\ Len(RankedResults) =
                  IF Cardinality(Passing) < ranker.max_results
                  THEN Cardinality(Passing) ELSE ranker.max_results
           /\ \A k \in 1..Len(RankedResults) :
                  /\ at(k) \in Passing
                  /\ RankedResults[k].rank = k
                  /\ RankedResults[k].similarity_score = Round4(rank_input[at(k)][2])
                  /\ \A l \in (k + 1)..Len(RankedResults) : Precedes(at(k), at(l))
                  /\ \A i \in Passing :
                         i \notin {at(l) : l \in 1..Len(RankedResults)}
                             => Precedes(at(k), i)

\* Two entries of equal score were returned next to each other
C10_Witness ==
    /\ rank_output.called
    /\ Len(RankedResults) >= 2
    /\ \E k \in 1..(Len(RankedResults) - 1) :
           InputScore(RankedResults[k].doc_id) = InputScore(RankedResults[k + 1].doc_id)

\* How far the search that returned last had come
CauseInvalid == ~validate_query(pending.query_terms)

CauseNoMatchingTerms ==
    /\ "query_vector" \in DOMAIN pending
    /\ DOMAIN pending.query_vector = {}

CauseNoCandidates ==
    /\ "candidates" \in DOMAIN pending
    /\ pending.candidates = {}

\* C5: a search that ends with zero valid terms, with an empty query vector,
\* or with a non-empty query vector and no candidate, returns zero results,
\* and its query_info is the one of its cause and of no other cause.
C5_NoResultCausesDistinct ==
    /\ InvalidQueryResult.query_info # NoMatchingTermsResult.query_info
    /\ InvalidQueryResult.query_info # NoCandidatesResult.query_info
    /\ NoMatchingTermsResult.query_info # NoCandidatesResult.query_info
    /\ (call.op = "search" /\ pending.pc = "done") =>
           LET value == call.ret.value
           IN /\ (CauseInvalid \/ CauseNoMatchingTerms \/ CauseNoCandidates) =>
                     value.results = <<>> /\ value.total_results = 0
              /\ CauseInvalid <=> value.query_info = InvalidQueryResult.query_info
              /\ CauseNoMatchingTerms <=>
                     value.query_info = NoMatchingTermsResult.query_info
              /\ CauseNoCandidates <=>
                     value.query_info = NoCandidatesResult.query_info

\* A search with a non-empty query vector found no candidate, in a state
\* where other queries end for the two other causes
C5_Witness ==
    /\ call.op = "search"
    /\ pending.pc = "done"
    /\ CauseNoCandidates
    /\ DOMAIN pending.query_vector # {}
    /\ call.ret.value = NoCandidatesResult
    /\ search(Query_blank).value = InvalidQueryResult
    /\ search(Query_miss).value = NoMatchingTermsResult

\* C11: for non-negative vectors and every norm argument, the value
\* calculate_similarity returns is at least 0 and at most 1.
C11_SimilarityInUnitInterval ==
    sim_output.called => 0 <= sim_output.value /\ sim_output.value <= SimScale

\* Some overlapping term has a positive score in both vectors: for
\* non-negative vectors, the dot product of the overlapping terms is not 0
OverlapPositive(query_vector, document_vector) ==
    \E term \in DOMAIN query_vector \cap DOMAIN document_vector :
        query_vector[term] * document_vector[term] > 0

\* C12: for non-negative vectors, calculate_similarity returns 0 exactly when
\* the query vector is empty, or the document vector is empty, or the norm
\* argument is 0, or the dot product of the overlapping terms is 0; it
\* returns a value in each of these cases.
C12_ZeroExactlyWhen ==
    sim_output.called =>
        (sim_output.value = 0 <=>
            \/ DOMAIN sim_input.query_vector = {}
            \/ DOMAIN sim_input.document_vector = {}
            \/ sim_input.document_norm = 0
            \/ ~OverlapPositive(sim_input.query_vector, sim_input.document_vector))

\* calculate_similarity returned 0 for two non-empty vectors and a non-zero
\* norm whose overlapping terms have a zero product
C12_Witness ==
    /\ sim_output.called
    /\ sim_output.value = 0
    /\ DOMAIN sim_input.query_vector \cap DOMAIN sim_input.document_vector # {}
    /\ sim_input.document_norm # 0
    /\ \E term \in DOMAIN sim_input.query_vector : sim_input.query_vector[term] > 0
    /\ \E term \in DOMAIN sim_input.document_vector : sim_input.document_vector[term] > 0

\* C13: a build_index call that follows a build_index call, with no
\* add_documents or remove_document in between, leaves document_frequencies,
\* every document vector and every document norm as the first call left them.
C13_BuildIdempotent ==
    LET once == IndexerBuildIndex(indexer)
        twice == IndexerBuildIndex(once)
    IN /\ twice.document_frequencies = once.document_frequencies
       /\ twice.tfidf_vectors = once.tfidf_vectors
       /\ twice.document_norms = once.document_norms
       /\ call.op = "build_index" =>
              /\ once.document_frequencies = indexer.document_frequencies
              /\ once.tfidf_vectors = indexer.tfidf_vectors
              /\ once.document_norms = indexer.document_norms

\* build_index has just run on a corpus that gives a document a positive score
C13_Witness ==
    /\ call.op = "build_index"
    /\ \E doc_id \in DOMAIN indexer.tfidf_vectors :
           \E term \in DOMAIN indexer.tfidf_vectors[doc_id] :
               indexer.tfidf_vectors[doc_id][term] > 0

\* C14: a search leaves the index and the store as they were (no
\* inverted-index key is created for an unknown term), so the query vector
\* and the candidate set of the query are the same after it as before it, and
\* the same search made again returns what it returned: same results in the
\* same order, same total_candidates.
C14_SearchReadOnly ==
    [][\A query \in Queries :
          (call'.op = "search" /\ Search(query)) =>
              /\ indexer' = indexer
              /\ document_store' = document_store
              /\ hash_seed' = hash_seed
              /\ get_query_vector(indexer', ProcessQueryOf[query])
                     = get_query_vector(indexer, ProcessQueryOf[query])
              /\ get_candidate_documents(indexer', ProcessQueryOf[query])
                     = Candidates(query)
              /\ CatchAll(SearchTry(indexer', document_store', ranker', query))
                     = call'.ret]_vars

\* A search has returned two results, and the same search now returns them
\* again
C14_Witness ==
    /\ call.op = "search"
    /\ Len(call.ret.value.results) >= 2
    /\ \E query \in Queries : search(query) = call.ret

\* C15: every value search returns, whatever the outcome, has results,
\* total_results, total_candidates and a query_info with terms and is_valid.
C15_ResultKeys ==
    \A query \in Queries :
        LET value == search(query).value
        IN /\ {"results", "total_results", "total_candidates", "query_info"}
                  \subseteq DOMAIN value
           /\ {"terms", "is_valid"} \subseteq DOMAIN value.query_info

\* C16: for a raw query of alphanumeric words separated by whitespace,
\* process_query returns the terms the normalizer (preprocess) returns for
\* that raw query, one per word that passes the length and stopword filters.
C16_WhitespaceSeparates ==
    (/\ text_output.called
     /\ text_output.op = "process_query"
     /\ \A i \in 1..Len(text_input) :
            text_input[i] \in LowerSet \cup UpperSet \cup Digits \cup Whitespace)
        => /\ text_output.value = preprocess(text_input)
           /\ Len(text_output.value)
                  = Len(SelectSeq(Split(Lower(text_input)), KeepToken))

\* str.split() with each word as its sequence of characters
RECURSIVE SplitCharsFrom(_, _, _)
SplitCharsFrom(text, i, cur) ==
    IF i > Len(text)
    THEN IF cur = <<>> THEN <<>> ELSE <<cur>>
    ELSE IF text[i] \in Whitespace
         THEN IF cur = <<>> THEN SplitCharsFrom(text, i + 1, <<>>)
              ELSE <<cur>> \o SplitCharsFrom(text, i + 1, <<>>)
         ELSE SplitCharsFrom(text, i + 1, Append(cur, text[i]))

RECURSIVE Join(_)
Join(chars) == IF chars = <<>> THEN "" ELSE Head(chars) \o Join(Tail(chars))

\* C17: every token preprocess returns is non-empty, made of lowercase
\* letters and digits only, at least min_token_length long and not a
\* stopword; an empty or whitespace-only text gives the empty sequence.
C17_TokensClean ==
    (text_output.called /\ text_output.op = "preprocess") =>
        LET words == SplitCharsFrom(SubNonKeptBySpace(Lower(text_input)), 1, <<>>)
            kept == SelectSeq(words, LAMBDA word : KeepToken(Join(word)))
        IN /\ text_output.value = [k \in 1..Len(kept) |-> Join(kept[k])]
           /\ \A k \in 1..Len(kept) :
                  /\ kept[k] # <<>>
                  /\ \A j \in 1..Len(kept[k]) : kept[k][j] \in LowerSet \cup Digits
                  /\ Len(kept[k]) >= MinTokenLength
                  /\ RemoveStopwords => Join(kept[k]) \notin STOPWORDS
           /\ (\A i \in 1..Len(text_input) : text_input[i] \in Whitespace)
                  => text_output.value = <<>>

\* Term lists given to get_candidate_documents and get_query_vector: empty,
\* in and out of the vocabulary, mixed, and with a repeated term
QueryTermLists ==
    {<<>>, <<"learning">>, <<"machine", "learning">>, <<"quantum">>,
     <<"machine", "quantum">>, <<"cooking", "cooking", "quantum">>,
     <<"together">>}

\* C18: get_candidate_documents returns exactly the documents listed in the
\* inverted-index entry of some query term that is in the vocabulary; a term
\* outside the vocabulary adds nothing and an empty term list gives the
\* empty set.
C18_CandidatesAreUnion ==
    /\ DOMAIN indexer.inverted_index = DOMAIN indexer.vocabulary
    /\ \A query_terms \in QueryTermLists :
           LET candidates == get_candidate_documents(indexer, query_terms)
           IN /\ \A doc_id \in DocIds :
                     doc_id \in candidates
                         <=> \E i \in 1..Len(query_terms) :
                                 /\ query_terms[i] \in DOMAIN indexer.vocabulary
                                 /\ doc_id \in indexer.inverted_index[query_terms[i]]
              /\ candidates \subseteq DocIds
              /\ (\A i \in 1..Len(query_terms) :
                      query_terms[i] \notin DOMAIN indexer.vocabulary)
                     => candidates = {}

\* Two terms with different entries, and a term outside the vocabulary
C18_Witness ==
    /\ "quantum" \notin DOMAIN indexer.vocabulary
    /\ {"machine", "learning"} \subseteq DOMAIN indexer.vocabulary
    /\ indexer.inverted_index["machine"] = {"d1"}
    /\ indexer.inverted_index["learning"] = {"d1", "d2"}
    /\ get_candidate_documents(indexer, <<"machine", "learning">>) = {"d1", "d2"}
    /\ get_candidate_documents(indexer, <<"machine", "quantum">>) = {"d1"}
    /\ get_candidate_documents(indexer, <<"quantum">>) = {}
    /\ call.op = "search"

\* C19: once the index is built, get_query_vector has an entry for exactly
\* the distinct query terms known at the last build_index, each weighted
\* (occurrences in the query / number of query terms) * ln(N / df[term]) with
\* N and df as of that build, whatever was added since; an empty term list
\* gives an empty map.
C19_QueryVectorFromLastBuild ==
    indexer.tfidf_vectors # EmptyDict =>
        \A query_terms \in QueryTermLists :
            LET query_vector == get_query_vector(indexer, query_terms)
                built_documents == Cardinality(DOMAIN indexer.tfidf_vectors)
                df == indexer.document_frequencies
            IN /\ ~query_vector.raised
               /\ DOMAIN query_vector.value = Range(query_terms) \cap DOMAIN df
               /\ \A term \in DOMAIN query_vector.value :
                      query_vector.value[term]
                          = TfIdf(Counter(query_terms)[term], Len(query_terms),
                                  built_documents, df[term])
               /\ query_terms = <<>> => query_vector.value = EmptyDict

\* C20: in every state, a document id is in the inverted-index entry of a
\* term exactly when the term occurs in that document's current token
\* sequence, and every term of a document has an entry.
C20_PostingsMatchTokens ==
    /\ \A term \in DOMAIN indexer.inverted_index :
           \A doc_id \in DocIds :
               doc_id \in indexer.inverted_index[term]
                   <=> /\ doc_id \in DOMAIN indexer.documents
                       /\ term \in Range(indexer.documents[doc_id])
    /\ \A doc_id \in DOMAIN indexer.documents :
           Range(indexer.documents[doc_id]) \subseteq DOMAIN indexer.inverted_index

\* The inverted-index entries <<term, doc_id>> whose term does not occur in
\* the token sequence the index holds for doc_id
StaleEntries(ix) ==
    {entry \in (DOMAIN ix.inverted_index) \X DocIds :
        /\ entry[2] \in ix.inverted_index[entry[1]]
        /\ \/ entry[2] \notin DOMAIN ix.documents
           \/ entry[1] \notin Range(ix.documents[entry[2]])}

\* C21: add_documents of an existing doc_id stores the new token sequence
\* and leaves the doc_id in the entry of every term of the previous version,
\* with the term still in the vocabulary; no add_documents takes a document
\* out of an entry, and a stale entry stays stale until its document is
\* given a text with the term again; build_index keeps the vocabulary
\* and the inverted index as they are and counts the stale entries in df
\* (so they stay in candidate sets); a successful remove_document, which
\* rebuilds the index from the stored corpus, leaves no stale entry.
C21_ReAddKeepsStaleEntries ==
    [][/\ \A documents \in Batches :
              (call'.op = "add_documents" /\ AddDocuments(documents)) =>
                  /\ \A i \in 1..Len(documents) :
                         LET doc_id == documents[i][1]
                             tokens == PreprocessOf[documents[i][2]]
                         IN /\ indexer'.documents[doc_id] = tokens
                            /\ doc_id \in DOMAIN indexer.documents =>
                                   \A term \in Range(indexer.documents[doc_id])
                                                   \ Range(tokens) :
                                       /\ term \in DOMAIN indexer'.vocabulary
                                       /\ doc_id \in indexer'.inverted_index[term]
                                       /\ <<term, doc_id>> \in StaleEntries(indexer')
                  /\ \A term \in DOMAIN indexer.inverted_index :
                         indexer.inverted_index[term]
                             \subseteq indexer'.inverted_index[term]
                  /\ \A entry \in StaleEntries(indexer) :
                         \/ entry \in StaleEntries(indexer')
                         \/ entry[1] \in Range(indexer'.documents[entry[2]])
       /\ (call'.op = "build_index" /\ BuildIndex) =>
              /\ indexer'.vocabulary = indexer.vocabulary
              /\ indexer'.inverted_index = indexer.inverted_index
              /\ StaleEntries(indexer') = StaleEntries(indexer)
              /\ \A term \in DOMAIN indexer.inverted_index :
                     /\ indexer'.document_frequencies[term]
                            = Cardinality(indexer.inverted_index[term])
                     /\ indexer.inverted_index[term]
                            \subseteq get_candidate_documents(indexer', <<term>>)
       /\ \A doc_id \in DocIds :
              (call'.op = "remove_document" /\ RemoveDocument(doc_id)
                  /\ call'.ret = TRUE) =>
                  /\ StaleEntries(indexer') = {}
                  /\ DOMAIN indexer'.vocabulary =
                         UNION {Range(indexer'.documents[d]) :
                                   d \in DOMAIN indexer'.documents}]_vars

\* d1 was re-added with another text and the index built: "algorithms", a
\* term of the previous text only, still lists d1 and counts in df
C21_Witness ==
    /\ call.op = "build_index"
    /\ "d1" \in DOMAIN indexer.documents
    /\ "algorithms" \in DOMAIN indexer.document_frequencies
    /\ indexer.documents["d1"] = <<"together", "machine", "learning">>
    /\ <<"algorithms", "d1">> \in StaleEntries(indexer)
    /\ indexer.document_frequencies["algorithms"] = 1
    /\ get_candidate_documents(indexer, <<"algorithms">>) = {"d1"}

\* C22: over every add_documents, build_index and remove_document step, each
\* term of the vocabulary keeps its id, no term leaves the vocabulary, a new
\* term gets an id above all the ids given so far, and no two terms share an
\* id.
C22_VocabularyIdsStable ==
    [][/\ \A term \in DOMAIN indexer.vocabulary :
              /\ term \in DOMAIN indexer'.vocabulary
              /\ indexer'.vocabulary[term] = indexer.vocabulary[term]
       /\ \A term \in DOMAIN indexer'.vocabulary \ DOMAIN indexer.vocabulary :
              indexer'.vocabulary[term] >= Cardinality(DOMAIN indexer.vocabulary)
       /\ \A s, t \in DOMAIN indexer'.vocabulary :
              indexer'.vocabulary[s] = indexer'.vocabulary[t] => s = t]_vars

\* An index with the three maps build_index writes emptied
Unbuilt(ix) ==
    [ix EXCEPT !.document_frequencies = EmptyDict,
               !.tfidf_vectors = EmptyDict,
               !.document_norms = EmptyDict]

\* C23: add_documents leaves document_frequencies, the document vectors and
\* the document norms as they were (and a search leaves the whole index);
\* build_index leaves the token map, the vocabulary and total_documents, and
\* writes for every ingested document the vector computed from the new
\* frequencies and its norm; the index remove_document installs holds these
\* three maps empty or as build_index wrote them.
C23_OnlyBuildWritesVectors ==
    [][/\ call'.op = "add_documents" =>
              /\ indexer'.document_frequencies = indexer.document_frequencies
              /\ indexer'.tfidf_vectors = indexer.tfidf_vectors
              /\ indexer'.document_norms = indexer.document_norms
       /\ call'.op = "search" => indexer' = indexer
       /\ call'.op = "build_index" =>
              /\ indexer'.documents = indexer.documents
              /\ indexer'.vocabulary = indexer.vocabulary
              /\ indexer'.total_documents = indexer.total_documents
              /\ DOMAIN indexer'.tfidf_vectors
                     = DOMAIN indexer.tfidf_vectors \cup DOMAIN indexer.documents
              /\ DOMAIN indexer'.document_norms = DOMAIN indexer'.tfidf_vectors
              /\ \A doc_id \in DOMAIN indexer.documents :
                     /\ indexer'.tfidf_vectors[doc_id]
                            = DocumentVector(indexer.documents[doc_id],
                                             indexer.total_documents,
                                             indexer'.document_frequencies)
                     /\ indexer'.document_norms[doc_id]
                            = SumSquares(indexer'.tfidf_vectors[doc_id])
       /\ call'.op = "remove_document" =>
              \/ indexer' = indexer
              \/ indexer' = Unbuilt(indexer')
              \/ indexer' = IndexerBuildIndex(Unbuilt(indexer'))]_vars

\* A document was added after a build: the index holds two documents and
\* the vector of one only
C23_Witness ==
    /\ call.op = "add_documents"
    /\ indexer.total_documents = 2
    /\ Cardinality(DOMAIN indexer.tfidf_vectors) = 1
    /\ DOMAIN indexer.document_norms = DOMAIN indexer.tfidf_vectors
    /\ DOMAIN indexer.tfidf_vectors # DOMAIN indexer.documents

\* C24: in every reachable state total_documents is the number N of ingested
\* documents and every vocabulary term has an inverted-index entry of 1 to N
\* documents, so the logarithm build_index takes is of a quotient >= 1; the
\* build then gives every vocabulary term a df of 1 to N and every document
\* scores >= 0, an empty vector and norm 0 to a document without tokens, and
\* no vector at all when N = 0.
C24_BuildWellDefined ==
    LET N == Cardinality(DOMAIN indexer.documents)
        built == IndexerBuildIndex(indexer)
    IN /\ indexer.total_documents = N
       /\ \A term \in DOMAIN indexer.vocabulary :
              /\ term \in DOMAIN indexer.inverted_index
              /\ Cardinality(indexer.inverted_index[term]) >= 1
              /\ Cardinality(indexer.inverted_index[term]) <= N
              /\ built.document_frequencies[term] >= 1
              /\ built.document_frequencies[term] <= N
              /\ Log(N, built.document_frequencies[term]) >= 0
       /\ \A doc_id \in DOMAIN indexer.documents :
              /\ Range(indexer.documents[doc_id]) \subseteq DOMAIN indexer.vocabulary
              /\ \A term \in DOMAIN built.tfidf_vectors[doc_id] :
                     built.tfidf_vectors[doc_id][term] >= 0
              /\ indexer.documents[doc_id] = <<>> =>
                     /\ built.tfidf_vectors[doc_id] = EmptyDict
                     /\ built.document_norms[doc_id] = 0
       /\ N = 0 => /\ built.tfidf_vectors = EmptyDict
                   /\ built.document_norms = EmptyDict

\* build_index has run on two documents, one of them without tokens: it has
\* an empty vector and norm 0, the other a positive score
C24_Witness ==
    /\ call.op = "build_index"
    /\ indexer.total_documents = 2
    /\ \E doc_id \in DOMAIN indexer.tfidf_vectors :
           /\ indexer.documents[doc_id] = <<>>
           /\ indexer.tfidf_vectors[doc_id] = EmptyDict
           /\ indexer.document_norms[doc_id] = 0
    /\ \E doc_id \in DOMAIN indexer.tfidf_vectors :
           \E term \in DOMAIN indexer.tfidf_vectors[doc_id] :
               indexer.tfidf_vectors[doc_id][term] > 0

\* C25: in every reachable state the vector map and the norm map have the
\* same document ids and each stored norm is the L2 norm of the stored vector
\* of the same document (kept squared: the sum of the squared scores); and
\* every similarity score in the results of a search made in that state is
\* above 0 and at most 1.
C25_NormsMatchVectors ==
    /\ DOMAIN indexer.tfidf_vectors = DOMAIN indexer.document_norms
    /\ \A doc_id \in DOMAIN indexer.tfidf_vectors :
           indexer.document_norms[doc_id] = SumSquares(indexer.tfidf_vectors[doc_id])
    /\ \A query \in Queries :
           LET results == search(query).value.results
           IN \A i \in 1..Len(results) :
                  /\ results[i].similarity_score > 0
                  /\ results[i].similarity_score <= SimScale

\* A search has returned two results with different similarity scores,
\* each for a document whose stored vector has a non-zero norm
C25_Witness ==
    /\ call.op = "search"
    /\ Len(call.ret.value.results) = 2
    /\ \A i \in 1..Len(call.ret.value.results) :
           indexer.document_norms[call.ret.value.results[i].doc_id] > 0
    /\ call.ret.value.results[1].similarity_score
           > call.ret.value.results[2].similarity_score

\* C26: the steps of a rebuild are visible one by one to a search that runs
\* between them.  The first loop of build_index rewrites the document
\* frequencies and leaves every vector and norm as the previous build left
\* it; each step of the second loop rewrites one document's vector and norm
\* and leaves the others; remove_document installs an empty index before it
\* re-ingests the stored documents; a step of the search changes neither the
\* index nor the writer's position, whatever that position is; and the index
\* at the return of build_index is the one a build taken whole gives.
C26_RebuildIsStepwise ==
    [][/\ (writer.pc = "frequencies" /\ writer'.pc = "vectors") =>
              /\ indexer'.tfidf_vectors = indexer.tfidf_vectors
              /\ indexer'.document_norms = indexer.document_norms
              /\ \A term \in DOMAIN indexer.vocabulary :
                     indexer'.document_frequencies[term]
                         = Cardinality(indexer.inverted_index[term])
              /\ writer'.todo = DocumentOrder
       /\ (writer.pc = "vectors" /\ writer'.pc = "vectors" /\ writer' # writer) =>
              /\ indexer'.document_frequencies = indexer.document_frequencies
              /\ DOMAIN indexer'.tfidf_vectors
                     = DOMAIN indexer.tfidf_vectors \cup {Head(writer.todo)}
              /\ \A doc_id \in DOMAIN indexer.tfidf_vectors \ {Head(writer.todo)} :
                     /\ indexer'.tfidf_vectors[doc_id] = indexer.tfidf_vectors[doc_id]
                     /\ indexer'.document_norms[doc_id] = indexer.document_norms[doc_id]
       /\ (writer.pc = "idle" /\ writer'.pc = "reingest") =>
              /\ indexer' = NewIndexer
              /\ Len(document_store') = Len(document_store) - 1
       /\ (writer.pc = "vectors" /\ writer'.pc = "idle") =>
              indexer' = IndexerBuildIndex(writer.start)
       /\ pending' # pending => /\ indexer' = indexer
                                /\ writer' = writer]_vars

\* A search has read its query vector and its candidates from an index whose
\* frequencies are those of the running build while the vector of a document
\* still to be rewritten is the one of the previous build
C26_Witness ==
    /\ pending.pc = "score"
    /\ writer.pc = "vectors"
    /\ writer.op = "build_index"
    /\ ~get_query_vector(writer.start, pending.query_terms).raised
    /\ pending.query_vector
           = get_query_vector(indexer, pending.query_terms).value
    /\ pending.query_vector
           # get_query_vector(writer.start, pending.query_terms).value
    /\ \E doc_id \in Range(writer.todo) \cap DOMAIN writer.start.tfidf_vectors :
           /\ doc_id \in pending.candidates
           /\ indexer.tfidf_vectors[doc_id] = writer.start.tfidf_vectors[doc_id]
           /\ indexer.tfidf_vectors[doc_id]
                  # DocumentVector(indexer.documents[doc_id],
                                   indexer.total_documents,
                                   indexer.document_frequencies)

\* C27: between an add_documents and the next build_index, a valid query
\* that has a term the vocabulary got since the last build, or a candidate
\* document that has no vector yet, is answered with the 'Search error'
\* payload (no results, the error naming the missing key); a valid query
\* with neither is not, and when it has candidates it gets the normal payload
\* computed from the existing vectors.
C27_UnbuiltAdditionFailsSearch ==
    \A query \in Queries :
        LET query_terms == ProcessQueryOf[query]
            new_terms == Range(query_terms)
                             \cap (DOMAIN indexer.vocabulary
                                       \ DOMAIN indexer.document_frequencies)
            new_candidates == Candidates(query) \ DOMAIN indexer.tfidf_vectors
            value == search(query).value
        IN validate_query(query_terms) =>
               IF new_terms # {} \/ new_candidates # {}
               THEN /\ value.results = <<>>
                    /\ value.total_results = 0
                    /\ \E key \in new_terms \cup new_candidates :
                           value = SearchErrorResult(key)
               ELSE /\ \A key \in DOMAIN indexer.vocabulary \cup DocIds :
                           value # SearchErrorResult(key)
                    /\ Candidates(query) # {} =>
                           /\ "total_candidates" \in DOMAIN value
                           /\ value.total_candidates = Cardinality(Candidates(query))
                           /\ ResultIds(value) \subseteq Candidates(query)

\* d2 was added after a build of d3 and d1: the search for "learning", whose
\* candidates include d2, has returned the error payload naming d2, the
\* search for "deep" would return the one naming "deep", and the search for
\* "cooking" still returns d3
C27_Witness ==
    /\ call.op = "search"
    /\ call.ret.value = SearchErrorResult("d2")
    /\ DOMAIN indexer.tfidf_vectors = {"d1", "d3"}
    /\ DOMAIN indexer.documents = {"d1", "d2", "d3"}
    /\ "deep" \in DOMAIN indexer.vocabulary \ DOMAIN indexer.document_frequencies
    /\ Candidates(Query_learning) = {"d1", "d2"}
    /\ ResultIds(search(Query_cooking).value) = {"d3"}

\* C28: in every reachable state every vocabulary term has at least one
\* document in its inverted-index entry; so a query with a non-empty query
\* vector has a non-empty candidate set, and no search returns the 'No
\* documents contain the query terms' payload.
C28_NoEmptyCandidates ==
    /\ \A term \in DOMAIN indexer.vocabulary :
           /\ term \in DOMAIN indexer.inverted_index
           /\ indexer.inverted_index[term] # {}
    /\ \A query \in Queries :
           LET query_vector == get_query_vector(indexer, ProcessQueryOf[query])
           IN /\ (~query_vector.raised /\ DOMAIN query_vector.value # {})
                     => Candidates(query) # {}
              /\ search(query).value # NoCandidatesResult
    /\ call.op = "search" => call.ret.value # NoCandidatesResult

\* A document has been removed from a built corpus of three: the terms it
\* alone had are gone from the vocabulary, and the search for one of them has
\* returned the vocabulary-miss payload
C28_Witness ==
    /\ call.op = "search"
    /\ call.ret.value = NoMatchingTermsResult
    /\ "d3" \in removed
    /\ DOMAIN indexer.documents = {"d1", "d2"}
    /\ "cooking" \notin DOMAIN indexer.vocabulary
    /\ search(Query_cooking).value = NoMatchingTermsResult
    /\ Candidates(Query_learning) = {"d1", "d2"}

\* The index is as a build_index leaves it: nothing was added since
Built == indexer = IndexerBuildIndex(indexer)

\* C29: after a build, a term whose inverted-index entry holds every
\* ingested document has IDF 0 and weight 0 in every document vector and in
\* the query vector; a corpus of exactly one document gives zero results for
\* every query; and a query that has terms in the vocabulary, each with every
\* document in its entry, gets zero results in the normal payload, with all
\* the documents as candidates and neither an error nor a message.
C29_UbiquitousTermsScoreZero ==
    Built =>
        LET N == Cardinality(DOMAIN indexer.documents)
            Ubiquitous(term) == indexer.inverted_index[term] = DOMAIN indexer.documents
        IN /\ \A term \in DOMAIN indexer.vocabulary :
                  Ubiquitous(term) =>
                      /\ Log(indexer.total_documents,
                             indexer.document_frequencies[term]) = 0
                      /\ \A doc_id \in DOMAIN indexer.tfidf_vectors :
                             term \in DOMAIN indexer.tfidf_vectors[doc_id]
                                 => indexer.tfidf_vectors[doc_id][term] = 0
                      /\ get_query_vector(indexer, <<term>>).value[term] = 0
           /\ N = 1 =>
                  \A query \in Queries :
                      /\ search(query).value.results = <<>>
                      /\ search(query).value.total_results = 0
           /\ \A query \in Queries :
                  LET known == Range(ProcessQueryOf[query])
                                   \cap DOMAIN indexer.vocabulary
                      value == search(query).value
                  IN (known # {} /\ \A term \in known : Ubiquitous(term)) =>
                         /\ value.results = <<>>
                         /\ value.total_results = 0
                         /\ Candidates(query) = DOMAIN indexer.documents
                         /\ "total_candidates" \in DOMAIN value
                         /\ value.total_candidates = N
                         /\ N > 0
                         /\ "error" \notin DOMAIN value.query_info
                         /\ "message" \notin DOMAIN value.query_info

\* On the built corpus of d1 and d2, which both contain "learning", the
\* search for "learning" has returned no result out of two candidates
C29_Witness ==
    /\ Built
    /\ call.op = "search"
    /\ DOMAIN indexer.documents = {"d1", "d2"}
    /\ indexer.inverted_index["learning"] = {"d1", "d2"}
    /\ call.ret.value = search(Query_learning).value
    /\ call.ret.value.results = <<>>
    /\ "total_candidates" \in DOMAIN call.ret.value
    /\ call.ret.value.total_candidates = 2
    /\ indexer.tfidf_vectors["d1"]["machine"] > 0

====
